---- MODULE Spec2Model ----
(***************************************************************************)
(* SuperCombo: the domain-name generate / filter / score pipeline of       *)
(* netlify/functions/agent.js (the agent handler and, in the same file,    *)
(* the score endpoint).                                                     *)
(*                                                                         *)
(* JavaScript strings are TLA+ strings (TLC evaluates Len, \o and SubSeq   *)
(* on them); a character is a string of length 1.  An absent JSON field    *)
(* (undefined) is the string Undefined.  Scores are exact decimals held as *)
(* integers in hundredths: 750 is 7.5, 1000 is 10.                         *)
(***************************************************************************)
EXTENDS Integers, Sequences, FiniteSets, TLC

VARIABLES
    genIn,      \* generateCombinations: its arguments (packs, multipliers, templates, constraints)
    genOut,     \* generateCombinations: the returned candidate list
    genPc,      \* "call" before generateCombinations ran, "returned" after
    req,        \* agent handler: the event (method, parsed body) and the environment
    pc,         \* agent handler: "start", "scoring" (awaiting a batch's fetch), "rank", "done"
    candidates, \* agent handler: const candidates
    batches,    \* agent handler: const batches
    bi,         \* agent handler: index of the batch the loop is at (0 outside the loop)
    allScores,  \* agent handler: const allScores
    inflight,   \* oracle: indexes of the batches whose request awaits its reply
    sent,       \* oracle: the batch index of every request sent, in order
    answers,    \* oracle: how it answered each batch so far, in batch order
    response,   \* agent handler: the returned HTTP response
    aborted,    \* caller: TRUE once it has aborted the request
    delays      \* fetchWithRetry: the delays waited between attempts, in order (ms)

genVars == <<genIn, genOut, genPc>>
agentVars == <<req, pc, candidates, batches, bi, allScores, inflight, sent, answers, response,
               aborted, delays>>
vars == <<genIn, genOut, genPc, req, pc, candidates, batches, bi, allScores, inflight,
          sent, answers, response, aborted, delays>>

\* The part of the state a specification does not exercise stays idle.
GenIdle == genIn = "idle" /\ genOut = <<>> /\ genPc = "idle"
AgentIdle ==
    /\ req = "idle" /\ pc = "idle" /\ candidates = <<>> /\ batches = <<>> /\ bi = 0
    /\ allScores = <<>> /\ inflight = {} /\ sent = <<>> /\ answers = <<>>
    /\ response = "idle" /\ aborted = FALSE /\ delays = <<>>

\* ------------------------------------------------------------------ bounds

\* Longest word pack (A, B) the generation inputs enumerate.
MaxPackLen == 2

\* Most full batches a scored request's candidate list fills (a further, partial
\* batch may follow).
MaxFullBatches == 1

\* The oracle's scoring pattern may start at offsets 0..MaxOffset.
MaxOffset == 1

\* ------------------------------------------------------- JavaScript values

Undefined == "<undefined>"

Min(a, b) == IF a < b THEN a ELSE b
Max(a, b) == IF a > b THEN a ELSE b

Char(s, i) == SubSeq(s, i, i)

\* the lower-case letter of each upper-case ASCII letter
LowerOf ==
    [A |-> "a", B |-> "b", C |-> "c", D |-> "d", E |-> "e", F |-> "f", G |-> "g",
     H |-> "h", I |-> "i", J |-> "j", K |-> "k", L |-> "l", M |-> "m", N |-> "n",
     O |-> "o", P |-> "p", Q |-> "q", R |-> "r", S |-> "s", T |-> "t", U |-> "u",
     V |-> "v", W |-> "w", X |-> "x", Y |-> "y", Z |-> "z"]
UpperSet == DOMAIN LowerOf

LowerSet == {LowerOf[c] : c \in DOMAIN LowerOf}
DigitSet == {"0", "1", "2", "3", "4", "5", "6", "7", "8", "9"}
ValidChars == LowerSet \cup DigitSet \cup {"-"}      \* the class [a-z0-9-]

\* String.prototype.toLowerCase on one character (ASCII letters).
ToLowerChar(c) == IF c \in UpperSet THEN LowerOf[c] ELSE c

RECURSIVE toLowerCase(_)
toLowerCase(s) ==
    IF s = "" THEN ""
    ELSE ToLowerChar(Char(s, 1)) \o toLowerCase(SubSeq(s, 2, Len(s)))

\* s.replace(/[^a-z0-9-]/g, ''): drop every character outside the class.
RECURSIVE StripInvalid(_)
StripInvalid(s) ==
    IF s = "" THEN ""
    ELSE (IF Char(s, 1) \in ValidChars THEN Char(s, 1) ELSE "")
         \o StripInvalid(SubSeq(s, 2, Len(s)))

\* String.prototype.includes
Includes(s, sub) ==
    \E i \in 1..(Len(s) - Len(sub) + 1) : SubSeq(s, i, i + Len(sub) - 1) = sub

\* /\d/.test(s)
HasDigit(s) == \E i \in 1..Len(s) : Char(s, i) \in DigitSet

\* ----------------------------------------------------------- UGLY_CLUSTERS

ConsonantSet ==
    {"b", "c", "d", "f", "g", "h", "j", "k", "l", "m", "n", "p", "q", "r", "s",
     "t", "v", "w", "x", "z"}
VowelSet == {"a", "e", "i", "o", "u"}
DoubledSet == {"xx", "zz", "qq", "ww", "vv"}

\* a run of four characters of one class starting somewhere in s (flag i: case-insensitive)
HasRun4(s, class) ==
    \E i \in 1..(Len(s) - 3) : \A k \in 0..3 : ToLowerChar(Char(s, i + k)) \in class

\* A slip in the quantifier: runs of five or more instead of four or more.
UglyClustersRun5(s) ==
    \/ \E i \in 1..(Len(s) - 4) : \A k \in 0..4 : ToLowerChar(Char(s, i + k)) \in ConsonantSet
    \/ \E i \in 1..(Len(s) - 4) : \A k \in 0..4 : ToLowerChar(Char(s, i + k)) \in VowelSet
    \/ \E i \in 1..(Len(s) - 1) : toLowerCase(SubSeq(s, i, i + 1)) \in DoubledSet

\* UGLY_CLUSTERS.test(s)
UGLY_CLUSTERS(s) ==
    \/ HasRun4(s, ConsonantSet)
    \/ HasRun4(s, VowelSet)
    \/ \E i \in 1..(Len(s) - 1) : toLowerCase(SubSeq(s, i, i + 1)) \in DoubledSet

\* ----------------------------------------------------------- applyTemplate

\* The template's nested loops over packs xs, ys (outer loop first): the list
\* of the tuples the loop body sees, in order.
Loop2(xs, ys) ==
    [k \in 1..(Len(xs) * Len(ys)) |->
        <<xs[((k - 1) \div Len(ys)) + 1], ys[((k - 1) % Len(ys)) + 1]>>]

Loop3(xs, ys, zs) ==
    [k \in 1..(Len(xs) * Len(ys) * Len(zs)) |->
        <<xs[((k - 1) \div (Len(ys) * Len(zs))) + 1],
          ys[(((k - 1) \div Len(zs)) % Len(ys)) + 1],
          zs[((k - 1) % Len(zs)) + 1]>>]

Loop4(ws, xs, ys, zs) ==
    [k \in 1..(Len(ws) * Len(xs) * Len(ys) * Len(zs)) |->
        <<ws[((k - 1) \div (Len(xs) * Len(ys) * Len(zs))) + 1],
          xs[(((k - 1) \div (Len(ys) * Len(zs))) % Len(xs)) + 1],
          ys[(((k - 1) \div Len(zs)) % Len(ys)) + 1],
          zs[((k - 1) % Len(zs)) + 1]>>]

Combo(d, t, s) == [domain |-> d, template |-> t, sources |-> s]

applyTemplate(template, A, B, C, prefixes, suffixes) ==
    CASE template = "A+B" ->
            LET F(a, b) == Combo(a \o b, "A+B", "A:" \o a \o ", B:" \o b)
                L == Loop2(A, B)
            IN  [k \in DOMAIN L |-> F(L[k][1], L[k][2])]
      [] template = "B+A" ->
            LET F(b, a) == Combo(b \o a, "B+A", "B:" \o b \o ", A:" \o a)
                L == Loop2(B, A)
            IN  [k \in DOMAIN L |-> F(L[k][1], L[k][2])]
      [] template = "A+B+C" ->
            LET F(a, b, c) ==
                    Combo(a \o b \o c, "A+B+C",
                          "A:" \o a \o ", B:" \o b \o ", C:" \o c)
                L == Loop3(A, B, C)
            IN  [k \in DOMAIN L |-> F(L[k][1], L[k][2], L[k][3])]
      [] template = "prefix+A+B" ->
            LET F(p, a, b) ==
                    Combo(p \o a \o b, "prefix+A+B",
                          "pre:" \o p \o ", A:" \o a \o ", B:" \o b)
                L == Loop3(prefixes, A, B)
            IN  [k \in DOMAIN L |-> F(L[k][1], L[k][2], L[k][3])]
      [] template = "A+B+suffix" ->
            LET F(a, b, s) ==
                    Combo(a \o b \o s, "A+B+suffix",
                          "A:" \o a \o ", B:" \o b \o ", suf:" \o s)
                L == Loop3(A, B, suffixes)
            IN  [k \in DOMAIN L |-> F(L[k][1], L[k][2], L[k][3])]
      [] template = "prefix+A+B+suffix" ->
            LET F(p, a, b, s) ==
                    Combo(p \o a \o b \o s, "prefix+A+B+suffix",
                          "pre:" \o p \o ", A:" \o a \o ", B:" \o b \o ", suf:" \o s)
                L == Loop4(prefixes, A, B, suffixes)
            IN  [k \in DOMAIN L |-> F(L[k][1], L[k][2], L[k][3], L[k][4])]
      [] OTHER -> <<>>

\* ---------------------------------------------------- generateCombinations

\* An optional array argument: given = FALSE when the caller sent none.
Given(list) == [given |-> TRUE, list |-> list]
NotGiven == [given |-> FALSE, list |-> <<>>]

\* JSON.stringify(combo) / JSON.parse(json): the text is held as the tuple of
\* the three string fields in key order.
JSONstringify(combo) == <<combo.domain, combo.template, combo.sources>>
JSONparse(json) == [domain |-> json[1], template |-> json[2], sources |-> json[3]]

Range(seq) == {seq[i] : i \in 1..Len(seq)}

\* results.add(x) for each x of xs in order: a Set keeps insertion order and
\* ignores a value it already holds.
RECURSIVE SetAddEach(_, _)
SetAddEach(results, xs) ==
    IF xs = <<>> THEN results
    ELSE SetAddEach(IF Head(xs) \in Range(results) THEN results
                    ELSE Append(results, Head(xs)),
                    Tail(xs))

\* The same, short-cut when no value repeats: every x is then appended.
SetAddAll(results, xs) ==
    IF Cardinality(Range(results) \cup Range(xs)) = Len(results) + Len(xs)
    THEN results \o xs
    ELSE SetAddEach(results, xs)

\* The constraints object: `given` holds the names of the fields the caller
\* supplied; a field outside `given` reads as undefined (as every field does when
\* the request carries no constraints at all, constraints?.field).
Constraints(given, maxLen, noHyphens, noNumbers, banned, avoidUglyClusters) ==
    [given |-> given, maxLen |-> maxLen, noHyphens |-> noHyphens,
     noNumbers |-> noNumbers, banned |-> banned,
     avoidUglyClusters |-> avoidUglyClusters]

NoConstraints == Constraints({}, 0, TRUE, TRUE, <<>>, TRUE)
MaxLen8 == Constraints({"maxLen"}, 8, TRUE, TRUE, <<>>, TRUE)
UglyAllowed == Constraints({"avoidUglyClusters"}, 0, TRUE, TRUE, <<>>, FALSE)

\* constraints?.maxLen || 12
EffMaxLen(constraints) ==
    IF "maxLen" \in constraints.given /\ constraints.maxLen # 0
    THEN constraints.maxLen ELSE 12

\* constraints?.flag !== false
EffFlag(constraints, f) == ~(f \in constraints.given /\ constraints[f] = FALSE)

\* constraints?.banned || []
EffBanned(constraints) ==
    IF "banned" \in constraints.given THEN constraints.banned ELSE <<>>

\* normalized = domain.toLowerCase().replace(/[^a-z0-9-]/g, '')
Normalize(domain) == StripInvalid(toLowerCase(domain))

\* The banned loop without b.toLowerCase().
IsBannedCaseSensitive(normalized, banned) ==
    \E i \in 1..Len(banned) : banned[i] # "" /\ Includes(normalized, banned[i])

\* the loop over banned: b && normalized.includes(b.toLowerCase())
IsBanned(normalized, banned) ==
    \E i \in 1..Len(banned) :
        banned[i] # "" /\ Includes(normalized, toLowerCase(banned[i]))

\* the chain of `continue` tests: TRUE when the candidate is pushed
Survives(normalized, constraints) ==
    /\ normalized # ""
    /\ ~(Len(normalized) > EffMaxLen(constraints))
    /\ ~(EffFlag(constraints, "noHyphens") /\ Includes(normalized, "-"))
    /\ ~(EffFlag(constraints, "noNumbers") /\ HasDigit(normalized))
    /\ ~(EffFlag(constraints, "avoidUglyClusters") /\ UGLY_CLUSTERS(normalized))
    /\ ~IsBanned(normalized, EffBanned(constraints))

\* the first loop: every template's combos added to the Set as JSON text
RECURSIVE CollectCombos(_, _, _, _)
CollectCombos(results, templates, packs, multipliers) ==
    IF templates = <<>> THEN results
    ELSE CollectCombos(
            SetAddAll(results,
                      LET combos == applyTemplate(Head(templates), packs.A, packs.B,
                                                  packs.C, multipliers.prefixes,
                                                  multipliers.suffixes)
                      IN  [i \in 1..Len(combos) |-> JSONstringify(combos[i])]),
            Tail(templates), packs, multipliers)

generateCombinations(packs, multipliers, templates, constraints) ==
    LET results == CollectCombos(<<>>,
                                 IF templates.given THEN templates.list ELSE <<"A+B">>,
                                 packs, multipliers)
        parsed == [i \in 1..Len(results) |->
                      LET c == JSONparse(results[i])
                      IN  [domain |-> Normalize(c.domain), template |-> c.template,
                           sources |-> c.sources]]
        keep(c) == Survives(c.domain, constraints)
    IN  SelectSeq(parsed, keep)

\* ------------------------------------------ generateCombinations, its inputs

WordsA == {"pay", "a!b"}
WordsB == {"pay", "Pay"}

SeqsUpTo(S, n) == UNION {[1..k -> S] : k \in 0..n}

GenPacks ==
    {[A |-> a, B |-> b, C |-> <<"xx">>] : a \in SeqsUpTo(WordsA, MaxPackLen),
                                          b \in SeqsUpTo(WordsB, MaxPackLen)}

GenMultipliers == {[prefixes |-> <<"e-">>, suffixes |-> <<"24", "">>]}

GenTemplates ==
    {NotGiven,
     Given(<<"A+B", "B+A">>),
     Given(<<"A+B+C">>),
     Given(<<"prefix+A+B", "A+B+suffix">>),
     Given(<<"prefix+A+B+suffix", "A*B">>)}

GenConstraints ==
    {NoConstraints,
     MaxLen8,
     Constraints({"maxLen", "noHyphens", "noNumbers", "avoidUglyClusters"},
                 0, FALSE, FALSE, <<>>, FALSE),
     Constraints({"banned"}, 0, TRUE, TRUE, <<"", "YP">>, TRUE),
     UglyAllowed,
     Constraints({"noHyphens"}, 0, FALSE, TRUE, <<>>, TRUE),
     Constraints({"noNumbers", "maxLen"}, 16, TRUE, FALSE, <<>>, TRUE)}

\* The trust/flow scenario: A = ["trust"], B = ["flow"], templates ["A+B"].
ScenarioInput(constraints) ==
    [packs |-> [A |-> <<"trust">>, B |-> <<"flow">>, C |-> <<>>],
     multipliers |-> [prefixes |-> <<>>, suffixes |-> <<>>],
     templates |-> Given(<<"A+B">>),
     constraints |-> constraints]

GenInputs ==
    [packs : GenPacks, multipliers : GenMultipliers,
     templates : GenTemplates, constraints : GenConstraints]
    \cup {ScenarioInput(c) : c \in {NoConstraints, MaxLen8, UglyAllowed}}

GenInit ==
    /\ genIn \in GenInputs
    /\ genOut = <<>>
    /\ genPc = "call"
    /\ AgentIdle

Generate ==
    /\ genPc = "call"
    /\ genOut' = generateCombinations(genIn.packs, genIn.multipliers,
                                      genIn.templates, genIn.constraints)
    /\ genPc' = "returned"
    /\ UNCHANGED genIn
    /\ UNCHANGED agentVars

GenNext == Generate

SpecGen == GenInit /\ [][GenNext]_vars

\* ------------------------------------------- claims on generateCombinations

Returned == genPc = "returned"

\* C2: the candidate list generateCombinations returns has pairwise distinct
\* domain strings, whichever templates or source tuples produced them.
C2_DomainsPairwiseDistinct ==
    Returned =>
        \A i, j \in 1..Len(genOut) : i # j => genOut[i].domain # genOut[j].domain

\* b occurs in d when letter case is ignored
OccursIgnoringCase(d, b) ==
    \E i \in 1..(Len(d) - Len(b) + 1) :
        toLowerCase(SubSeq(d, i, i + Len(b) - 1)) = toLowerCase(b)

\* C3: every candidate that survives generateCombinations has a non-empty domain
\* over [a-z0-9-], no longer than the effective maxLen, with no hyphen when
\* noHyphens is in effect, no digit when noNumbers is in effect, and containing
\* no (non-empty) banned string, letter case ignored.
C3_SurvivorsMeetConstraints ==
    Returned =>
        \A i \in 1..Len(genOut) :
            LET d == genOut[i].domain
                c == genIn.constraints
            IN  /\ d # ""
                /\ \A k \in 1..Len(d) : Char(d, k) \in ValidChars
                /\ Len(d) <= (IF "maxLen" \in c.given /\ c.maxLen # 0 THEN c.maxLen ELSE 12)
                /\ ("noHyphens" \notin c.given \/ c.noHyphens) =>
                        \A k \in 1..Len(d) : Char(d, k) # "-"
                /\ ("noNumbers" \notin c.given \/ c.noNumbers) =>
                        \A k \in 1..Len(d) : Char(d, k) \notin DigitSet
                /\ "banned" \in c.given =>
                        \A k \in 1..Len(c.banned) :
                            c.banned[k] # "" => ~OccursIgnoringCase(d, c.banned[k])

\* C3 witness: a run with an upper-case banned string where one combination
\* ("pay" + "Pay") holds the banned string and was dropped while others survived.
C3_Witness ==
    /\ Returned
    /\ genIn.constraints.banned = <<"", "YP">>
    /\ "banned" \in genIn.constraints.given
    /\ genIn.packs.A = <<"pay", "a!b">>
    /\ genIn.packs.B = <<"Pay">>
    /\ genIn.templates = NotGiven
    /\ Len(genOut) = 1
    /\ genOut[1].domain = "abpay"

\* C4 as stated: trust + flow under default constraints yields exactly the one
\* candidate "trustflow", and none with maxLen = 8.
C4_ScenarioAsStated ==
    /\ (Returned /\ genIn = ScenarioInput(NoConstraints)) =>
            (Len(genOut) = 1 /\ genOut[1].domain = "trustflow")
    /\ (Returned /\ genIn = ScenarioInput(MaxLen8)) => genOut = <<>>

\* C4 amended: "trustflow" holds the consonant run "stfl", so under default
\* constraints (avoidUglyClusters in effect) and under maxLen = 8 no candidate is
\* returned; with avoidUglyClusters = false and the other defaults exactly the one
\* candidate "trustflow" is returned.
C4_ScenarioAmended ==
    /\ (Returned /\ genIn = ScenarioInput(NoConstraints)) => genOut = <<>>
    /\ (Returned /\ genIn = ScenarioInput(MaxLen8)) => genOut = <<>>
    /\ (Returned /\ genIn = ScenarioInput(UglyAllowed)) =>
            genOut = <<[domain |-> "trustflow", template |-> "A+B",
                       sources |-> "A:trust, B:flow"]>>

\* C4 witness: the scenario ran with avoidUglyClusters = false and returned a candidate.
C4_Witness ==
    /\ Returned
    /\ genIn = ScenarioInput(UglyAllowed)
    /\ Len(genOut) = 1


\* =========================================================================
\* The agent handler: generate, score in batches, rank.
\* =========================================================================

MAX_CANDIDATES == 10000
MAX_TOPK == 300
BATCH_SIZE == 80
MAX_PRESETS == 6

\* ----------------------------------------------------------- oracle values

\* A score as the oracle's JSON carries it: a number, a numeric string, some
\* other text, or no score field at all.  v is in hundredths.
Num(v) == [t |-> "num", v |-> v]
NumStr(v) == [t |-> "numstr", v |-> v]
Text == [t |-> "text", v |-> 0]
Absent == [t |-> "absent", v |-> 0]

NaN == [nan |-> TRUE, v |-> 0]

\* parseFloat(x)
parseFloat(raw) ==
    IF raw.t \in {"num", "numstr"} THEN [nan |-> FALSE, v |-> raw.v] ELSE NaN

\* The clamp without its upper bound.
ClampScoreNoMax(raw) ==
    LET f == parseFloat(raw)
    IN  Max(0, IF f.nan THEN 0 ELSE f.v)

\* Math.min(10, Math.max(0, parseFloat(x) || 0)), in hundredths
ClampScore(raw) ==
    LET f == parseFloat(raw)
        n == IF f.nan \/ f.v = 0 THEN 0 ELSE f.v
    IN  Min(1000, Max(0, n))

BUCKETS == {"FAST-FLIP", "HOLD", "PASS"}

\* ['FAST-FLIP', 'HOLD', 'PASS'].includes(b) ? b : 'PASS'
ValidBucket(b) == IF b \in BUCKETS THEN b ELSE "PASS"

\* String(x || '').slice(0, n)
TextField(x, n) ==
    LET str == IF x = Undefined THEN "" ELSE x
    IN  SubSeq(str, 1, Min(n, Len(str)))

\* The rounding replaced by a truncation to one decimal.
Round1Truncated(num, den) == (num \div (10 * den)) * 10

\* Math.round(x * 10) / 10 for x = num / den hundredths (num >= 0, den > 0)
Round1(num, den) == ((num + 5 * den) \div (10 * den)) * 10

\* s.replace('.com', ''): the first occurrence only
StripDotCom(s) ==
    IF Includes(s, ".com")
    THEN LET i == CHOOSE i \in 1..(Len(s) - 3) :
                      /\ SubSeq(s, i, i + 3) = ".com"
                      /\ \A j \in 1..(i - 1) : SubSeq(s, j, j + 3) # ".com"
         IN  SubSeq(s, 1, i - 1) \o SubSeq(s, i + 4, Len(s))
    ELSE s

\* ---------------------------------------------------------------- chunkArray

\* A slice one element short of the batch size.
chunkArrayShortSlice(arr, size) ==
    [k \in 1..((Len(arr) + size - 1) \div size) |->
        SubSeq(arr, (k - 1) * size + 1, Min(k * size - 1, Len(arr)))]

\* for (i = 0; i < arr.length; i += size) chunks.push(arr.slice(i, i + size))
chunkArray(arr, size) ==
    [k \in 1..((Len(arr) + size - 1) \div size) |->
        SubSeq(arr, (k - 1) * size + 1, Min(k * size, Len(arr)))]

\* isMultiPreset ? Math.min(60, BATCH_SIZE) : BATCH_SIZE
BatchSize(isMultiPreset) == IF isMultiPreset THEN Min(60, BATCH_SIZE) ELSE BATCH_SIZE

\* ------------------------------------------------------------ result records

\* The fallback that returns nothing for a failed batch.
FailureRecordsDropped(batch, reason) == <<>>

\* batch.map(c => ({ ...c, score: 0, bucket: 'PASS', reason, use_case: '' }))
FailureRecords(batch, reason) ==
    [i \in 1..Len(batch) |->
        [domain |-> batch[i].domain, template |-> batch[i].template,
         sources |-> batch[i].sources, score |-> 0, bucket |-> "PASS",
         reason |-> reason, use_case |-> ""]]

\* An oracle entry: domain (Undefined when the entry has none), the single-preset
\* fields, and resultsByPreset (hasRbp FALSE when absent) as a function from the
\* preset ids the oracle answered to their sub-results.
Entry(domain, score, bucket, reason, use_case, hasRbp, rbp) ==
    [isNull |-> FALSE, domain |-> domain, score |-> score, bucket |-> bucket,
     reason |-> reason, use_case |-> use_case, hasRbp |-> hasRbp, rbp |-> rbp]

\* a null element of the oracle's array
NullEntry == [Entry(Undefined, Absent, Undefined, Undefined, Undefined, FALSE, <<>>)
                EXCEPT !.isNull = TRUE]

SubResult(score, bucket, reason, use_case) ==
    [score |-> score, bucket |-> bucket, reason |-> reason, use_case |-> use_case]

\* {}: what `scoreMap[key] || {}` and `resultsByPreset[pid] || {}` give for a missing key
EmptyObject == SubResult(Absent, Undefined, Undefined, Undefined)

\* map[key]: the last entry assigned under the key, if any
Lookup(index, key) ==
    LET hits == {p \in index : p[1] = key}
    IN  IF hits = {} THEN [found |-> FALSE, e |-> 0]
        ELSE [found |-> TRUE, e |-> (CHOOSE p \in hits : \A h \in hits : h[2] <= p[2])[2]]

\* An oracle reply to one fetch: kind "transport" when fetch rejects, else
\* "http" with the status and the body; the body's message content is text that
\* is no JSON ("unparseable", as is a body without choices), JSON that is no
\* array ("nonarray"), or an array of entries; fenced when wrapped in ```json.
Reply(kind, status, parse, fenced, entries) ==
    [kind |-> kind, status |-> status,
     body |-> [parse |-> parse, fenced |-> fenced, entries |-> entries]]

\* response.ok
Ok(status) == status >= 200 /\ status <= 299

\* ----------------------------------------------------------- scoreSingleBatch

\* the key under which scoreMap holds entry s: s.domain.replace('.com', '').toLowerCase()
EntryKey(e) == toLowerCase(StripDotCom(IF e.domain = Undefined THEN "" ELSE e.domain))

\* scoreMap / resultMap after the loop that assigns map[key(entry)] = entry in
\* array order, as the set of <<key, index>> pairs
KeyIndex(entries) == {<<EntryKey(entries[j]), j>> : j \in 1..Len(entries)}

\* The record built for candidate c from scoreMap[c.domain.toLowerCase()] || {}
SingleRecord(c, s) ==
    [domain |-> c.domain,
     score |-> ClampScore(s.score),
     bucket |-> ValidBucket(s.bucket),
     reason |-> TextField(s.reason, 200),
     use_case |-> TextField(s.use_case, 50),
     templateUsed |-> c.template,
     sources |-> c.sources]

scoreSingleBatch(batch, reply) ==
    IF reply.kind = "transport" THEN FailureRecords(batch, "Error")
    ELSE IF ~Ok(reply.status) THEN FailureRecords(batch, "Scoring failed")
    ELSE IF reply.body.parse # "array" THEN FailureRecords(batch, "Error")
    ELSE LET entries == reply.body.entries
         IN  IF \E j \in 1..Len(entries) :
                    entries[j].isNull \/ entries[j].domain = Undefined
             THEN FailureRecords(batch, "Error")    \* s.domain.replace throws
             ELSE LET scoreMap == KeyIndex(entries)
                  IN  [i \in 1..Len(batch) |->
                          LET hit == Lookup(scoreMap, toLowerCase(batch[i].domain))
                          IN  SingleRecord(batch[i],
                                           IF hit.found THEN entries[hit.e]
                                           ELSE EmptyObject)]

\* ------------------------------------------------------ scoreMultiPresetBatch

\* presetMap[id]?.name || id, presetMap built from the presets list in order
PresetName(presets, id) ==
    LET hits == {j \in 1..Len(presets) : presets[j].id = id /\ presets[j].id # ""}
    IN  IF hits = {} THEN id
        ELSE LET p == presets[CHOOSE j \in hits : \A h \in hits : h <= j]
             IN  IF p.name = "" THEN id ELSE p.name

\* The empty result carrying the single-preset catch's reason.
createEmptyMultiResultError(candidate, presetIds, presets) ==
    [domain |-> candidate.domain,
     templateUsed |-> candidate.template,
     sources |-> candidate.sources,
     bestPresetId |-> presetIds[1],
     bestPresetName |-> presetIds[1],
     bestScore |-> 0,
     avgScore |-> 0,
     maxScore |-> 0,
     bucket |-> "PASS",
     reason |-> "Error",
     use_case |-> "",
     scoreByPreset |-> [pid \in Range(presetIds) |-> 0]]

createEmptyMultiResult(candidate, presetIds, presets) ==
    [domain |-> candidate.domain,
     templateUsed |-> candidate.template,
     sources |-> candidate.sources,
     bestPresetId |-> presetIds[1],
     bestPresetName |-> PresetName(presets, presetIds[1]),
     bestScore |-> 0,
     avgScore |-> 0,
     maxScore |-> 0,
     bucket |-> "PASS",
     reason |-> "Scoring failed",
     use_case |-> "",
     scoreByPreset |-> [pid \in Range(presetIds) |-> 0]]

\* A missing persona defaulting to a sub-result of score 1.
PresetResultDefaultOne(resultsByPreset, pid) ==
    IF pid \in DOMAIN resultsByPreset THEN resultsByPreset[pid]
    ELSE SubResult(Num(100), Undefined, Undefined, Undefined)

\* resultsByPreset[pid] || {}
PresetResult(resultsByPreset, pid) ==
    IF pid \in DOMAIN resultsByPreset THEN resultsByPreset[pid] ELSE EmptyObject

\* The loop over presetIds of processMultiResult: acc holds the loop's variables.
RECURSIVE BestLoop(_, _, _)
BestLoop(acc, ids, resultsByPreset) ==
    IF ids = <<>> THEN acc
    ELSE LET pid == Head(ids)
             result == PresetResult(resultsByPreset, pid)
             score == ClampScore(result.score)
             pushed == [acc EXCEPT !.scores = Append(@, score)]
         IN  BestLoop(IF score > acc.bestScore
                      THEN [pushed EXCEPT !.bestScore = score,
                                          !.bestPresetId = pid,
                                          !.bestBucket = ValidBucket(result.bucket),
                                          !.bestReason = TextField(result.reason, 200),
                                          !.bestUseCase = TextField(result.use_case, 50)]
                      ELSE pushed,
                      Tail(ids), resultsByPreset)

RECURSIVE Sum(_)
Sum(xs) == IF xs = <<>> THEN 0 ELSE Head(xs) + Sum(Tail(xs))

\* the final bucket from bestScore and the winning preset's own bucket
FinalBucket(bestScore, bestBucket) ==
    IF bestScore >= 800 THEN "FAST-FLIP"
    ELSE IF bestScore >= 700
         THEN (IF bestBucket = "FAST-FLIP" THEN "FAST-FLIP" ELSE "HOLD")
    ELSE IF bestScore >= 400 THEN "HOLD"
    ELSE "PASS"

processMultiResult(candidate, resultsByPreset, presetIds, presets) ==
    LET acc == BestLoop([bestScore |-> 0, bestPresetId |-> presetIds[1],
                         bestBucket |-> "PASS", bestReason |-> "",
                         bestUseCase |-> "", scores |-> <<>>],
                        presetIds, resultsByPreset)
        n == Len(acc.scores)
    IN  [domain |-> candidate.domain,
         templateUsed |-> candidate.template,
         sources |-> candidate.sources,
         bestPresetId |-> acc.bestPresetId,
         bestPresetName |-> PresetName(presets, acc.bestPresetId),
         bestScore |-> Round1(acc.bestScore, 1),
         avgScore |-> IF n > 0 THEN Round1(Sum(acc.scores), n) ELSE 0,
         maxScore |-> Round1(acc.bestScore, 1),
         bucket |-> FinalBucket(acc.bestScore, acc.bestBucket),
         reason |-> acc.bestReason,
         use_case |-> acc.bestUseCase,
         scoreByPreset |->
            [pid \in Range(presetIds) |->
                Round1(ClampScore(PresetResult(resultsByPreset, pid).score), 1)]]

\* String(r.domain || '').replace('.com', '').toLowerCase() is EntryKey(r)
scoreMultiPresetBatch(batch, presetIds, presets, reply) ==
    LET empty == [i \in 1..Len(batch) |->
                     createEmptyMultiResult(batch[i], presetIds, presets)]
    IN  IF reply.kind = "transport" THEN empty
        ELSE IF ~Ok(reply.status) THEN empty
        ELSE IF reply.body.parse # "array" THEN empty
        ELSE LET entries == reply.body.entries
             IN  IF \E j \in 1..Len(entries) : entries[j].isNull
                 THEN empty                          \* r.domain throws on null
                 ELSE LET resultMap == KeyIndex(entries)
                      IN  [i \in 1..Len(batch) |->
                              LET hit == Lookup(resultMap,
                                                toLowerCase(batch[i].domain))
                              IN  IF ~hit.found \/ ~entries[hit.e].hasRbp
                                  THEN createEmptyMultiResult(batch[i], presetIds,
                                                              presets)
                                  ELSE processMultiResult(batch[i],
                                                          entries[hit.e].rbp,
                                                          presetIds, presets)]

\* ------------------------------------------------------- ranking (sort, slice)

\* the fields the comparator reads: bestScore then avgScore, or score alone
SortKey(isMultiPreset, r) ==
    IF isMultiPreset THEN <<r.bestScore, r.avgScore>> ELSE <<r.score, 0>>

\* the comparator of allScores.sort on two records' keys: negative when a sorts
\* before b
\*   multi:  b.bestScore !== a.bestScore ? b.bestScore - a.bestScore
\*                                       : b.avgScore - a.avgScore
\*   single: b.score - a.score
Compare(ka, kb) == IF kb[1] # ka[1] THEN kb[1] - ka[1] ELSE kb[2] - ka[2]

\* allScores.sort(comparator): the sort is stable, so the records level with
\* the foremost key come first in their input order, then the rest, sorted.
RECURSIVE StableSort(_, _)
StableSort(seq, isMultiPreset) ==
    IF seq = <<>> THEN <<>>
    ELSE LET keys == {SortKey(isMultiPreset, seq[i]) : i \in 1..Len(seq)}
             m == CHOOSE k \in keys : \A k2 \in keys : Compare(k, k2) <= 0
             Level(x) == Compare(m, SortKey(isMultiPreset, x)) = 0
             Behind(x) == Compare(m, SortKey(isMultiPreset, x)) # 0
         IN  SelectSeq(seq, Level) \o StableSort(SelectSeq(seq, Behind), isMultiPreset)

\* arr.slice(0, end)
Slice0(arr, end) ==
    LET e == IF end < 0 THEN Max(Len(arr) + end, 0) ELSE Min(end, Len(arr))
    IN  SubSeq(arr, 1, e)

\* An optional number argument.
GivenNum(v) == [given |-> TRUE, v |-> v]
NoNum == [given |-> FALSE, v |-> 0]

\* Math.min(topK || 100, MAX_TOPK)
LimitedTopK(topK) ==
    Min(IF topK.given /\ topK.v # 0 THEN topK.v ELSE 100, MAX_TOPK)

\* Array.isArray(presetIds) && presetIds.length > 0
IsMultiPreset(presetIds) == presetIds.given /\ Len(presetIds.list) > 0

\* isMultiPreset && (presetIds.length < 1 || presetIds.length > MAX_PRESETS)
PresetCountInvalid(presetIds) ==
    IsMultiPreset(presetIds)
        /\ (Len(presetIds.list) < 1 \/ Len(presetIds.list) > MAX_PRESETS)

\* candidates.length > MAX_CANDIDATES
TooManyCandidates(cands) == Len(cands) > MAX_CANDIDATES

\* ------------------------------------------------------------------ the oracle

X10 == "xxxxxxxxxx"
X50 == X10 \o X10 \o X10 \o X10 \o X10
LongReason == X50 \o X50 \o X50 \o X50 \o "y"      \* 201 characters
LongUseCase == X50 \o "y"                            \* 51 characters

\* What the oracle may say about one domain (or one persona of a domain).
Patterns ==
    << SubResult(Num(750), "FAST-FLIP", "Short, memorable", "B2B fintech"),
       SubResult(Num(1100), "HOLD", LongReason, LongUseCase),
       SubResult(Num(-500), "PASS", "negative", ""),
       SubResult(Text, "MAYBE", Undefined, Undefined),
       SubResult(Absent, Undefined, Undefined, Undefined),
       SubResult(Num(5), "PASS", "tiny", "none"),
       SubResult(Num(0), "PASS", "nothing", "none"),
       SubResult(NumStr(396), "HOLD", "close to hold", "ads"),
       SubResult(Num(796), "fast-flip", "near eight", "payments"),
       SubResult(Num(600), "HOLD", "decent", "lending") >>

PatternAt(k) == Patterns[(k % Len(Patterns)) + 1]

IndexOf(seq, x) == CHOOSE i \in 1..Len(seq) : seq[i] = x

\* resultsByPreset for the j-th domain of a batch: persona q of the request gets
\* pattern j + o + q - 1; a persona whose pattern is the all-absent one is left out.
RbpAt(j, o, presetIds) ==
    LET answered == {pid \in Range(presetIds) :
                        PatternAt(j + o + IndexOf(presetIds, pid) - 1).score.t # "absent"}
    IN  [pid \in answered |-> PatternAt(j + o + IndexOf(presetIds, pid) - 1)]

\* the entry for the j-th domain of a batch under offset o, the domain echoed as text
EntryAt(batch, j, o, presetIds, domainText) ==
    LET pt == PatternAt(j + o - 1)
    IN  Entry(domainText, pt.score, pt.bucket, pt.reason, pt.use_case,
              presetIds # <<>>, IF presetIds # <<>> THEN RbpAt(j, o, presetIds) ELSE <<>>)

\* the domain as an oracle may echo it, its first letter in upper case
Capitalise(d) ==
    (IF \E u \in UpperSet : LowerOf[u] = Char(d, 1)
     THEN CHOOSE u \in UpperSet : LowerOf[u] = Char(d, 1)
     ELSE Char(d, 1)) \o SubSeq(d, 2, Len(d))

\* The ways the oracle answers a batch: b names the behaviour, o the offset of
\* the scoring pattern.
Answer(b, o) == [b |-> b, o |-> o]

RejectAnswers == {Answer("transport", 0)}
NotOkAnswers == {Answer("http503", 0), Answer("http429", 0)}
BodyAnswers(isMultiPreset) ==
    {Answer("unparseable", 0), Answer("nonarray", 0), Answer("partial", 0),
     Answer("malformed", 0)}
        \cup {Answer("scored", o) : o \in 0..MaxOffset}
        \cup (IF isMultiPreset THEN {Answer("norbp", 0)} ELSE {})

\* The reply an answer stands for, given the batch it answers (presetIds is <<>>
\* in single-preset mode).
OracleReply(ans, batch, presetIds) ==
    CASE ans.b = "transport" -> Reply("transport", 0, "unparseable", FALSE, <<>>)
      [] ans.b = "http503" -> Reply("http", 503, "unparseable", FALSE, <<>>)
      [] ans.b = "http429" -> Reply("http", 429, "unparseable", FALSE, <<>>)
      [] ans.b = "unparseable" -> Reply("http", 200, "unparseable", FALSE, <<>>)
      [] ans.b = "nonarray" -> Reply("http", 200, "nonarray", FALSE, <<>>)
         \* every domain scored, echoed as submitted
      [] ans.b = "scored" ->
            Reply("http", 200, "array", FALSE,
                  [j \in 1..Len(batch) |->
                      EntryAt(batch, j, ans.o, presetIds, batch[j].domain)])
         \* the first domain left out, the others echoed capitalised with ".com",
         \* in a code fence
      [] ans.b = "partial" ->
            Reply("http", 200, "array", TRUE,
                  [j \in 1..(Len(batch) - 1) |->
                      EntryAt(batch, j + 1, 0, presetIds,
                              Capitalise(batch[j + 1].domain) \o ".com")])
         \* every domain scored, then an entry without a domain and a null
      [] ans.b = "malformed" ->
            Reply("http", 200, "array", FALSE,
                  [j \in 1..Len(batch) |->
                      EntryAt(batch, j, 0, presetIds, batch[j].domain)]
                  \o << EntryAt(batch, 1, 0, presetIds, Undefined), NullEntry >>)
         \* every domain echoed, none with resultsByPreset (multi-preset mode)
      [] ans.b = "norbp" ->
            Reply("http", 200, "array", FALSE,
                  [j \in 1..Len(batch) |->
                      EntryAt(batch, j, 0, <<>>, batch[j].domain)])

\* ---------------------------------------------------------------- the requests

VOWELS == "aeiou"
ONSETS == "bdfgk"

\* 25 consonant-vowel syllables, and the i-th of the words made of three of them
Syllable(k) == Char(ONSETS, (k \div 5) + 1) \o Char(VOWELS, (k % 5) + 1)
Word(i) ==
    Syllable(((i - 1) \div 625) % 25) \o Syllable(((i - 1) \div 25) % 25)
        \o Syllable((i - 1) % 25)

\* packs whose default template A+B makes n distinct candidates
PacksOf(n) == [A |-> [i \in 1..n |-> Word(i)], B |-> <<"hub">>, C |-> <<>>]

Request(httpMethod, bodyOk, task, n, topK, presetIds, apiKey) ==
    [httpMethod |-> httpMethod, bodyOk |-> bodyOk, task |-> task,
     packs |-> PacksOf(n),
     multipliers |-> [prefixes |-> <<>>, suffixes |-> <<>>],
     templates |-> NotGiven, constraints |-> NoConstraints, mode |-> "lenders",
     topK |-> topK, presetIds |-> presetIds,
     presets |-> << [id |-> "p1", name |-> "Lenders"] >>,
     apiKey |-> apiKey]

Scored(n, topK, presetIds) ==
    Request("POST", TRUE, "generate_and_score", n, topK, presetIds, TRUE)

\* candidate counts around the batch boundaries of both modes
Sizes ==
    {k * size + r : k \in 0..MaxFullBatches, size \in {60, BATCH_SIZE}, r \in {0, 1}}

TwoPresets == Given(<<"p1", "p2">>)
SevenPresets == Given(<<"p1", "p2", "p3", "p4", "p5", "p6", "p7">>)

Requests ==
    {Scored(n, NoNum, ids) : n \in Sizes, ids \in {NotGiven, TwoPresets}}
    \cup {Scored(MAX_CANDIDATES + 1, NoNum, ids) : ids \in {NotGiven, TwoPresets}}
    \cup {Scored(1, NoNum, ids) : ids \in {Given(<<>>), Given(<<"p2">>), SevenPresets}}
    \cup {Scored(BATCH_SIZE + 1, GivenNum(k), NotGiven) : k \in {-1, 0, 5, 500}}
    \cup {Request("POST", TRUE, "generate_and_score", n, NoNum, NotGiven, FALSE) :
              n \in {0, 1}}
    \cup {Request("POST", TRUE, "score", 1, NoNum, NotGiven, TRUE),
          Request("POST", FALSE, "generate_and_score", 1, NoNum, NotGiven, TRUE),
          Request("OPTIONS", TRUE, "generate_and_score", 1, NoNum, NotGiven, TRUE),
          Request("GET", TRUE, "generate_and_score", 1, NoNum, NotGiven, TRUE)}

\* ------------------------------------------------------------ the agent handler

Response(statusCode, error, results, totalGenerated) ==
    [statusCode |-> statusCode, error |-> error, success |-> error = "",
     count |-> Len(results), totalGenerated |-> totalGenerated, results |-> results]

\* presetIds as the batch scorers read it: <<>> in single-preset mode
ActivePresets(r) == IF IsMultiPreset(r.presetIds) THEN r.presetIds.list ELSE <<>>

\* Every batch requested at once instead of one per loop turn.
DispatchedAllAtOnce(k, n) == IF k = 1 THEN 1..n ELSE {}

\* The batches whose fetch is issued when the loop reaches batch k of n: the
\* loop body awaits scoreSingleBatch / scoreMultiPresetBatch for that one batch.
Dispatched(k, n) == IF k <= n THEN {k} ELSE {}

\* a finite set of numbers as the ascending list
RECURSIVE Ascending(_)
Ascending(S) ==
    IF S = {} THEN <<>>
    ELSE LET m == CHOOSE x \in S : \A y \in S : x <= y
         IN  <<m>> \o Ascending(S \ {m})

AgentInit ==
    /\ req \in Requests
    /\ pc = "start"
    /\ candidates = <<>> /\ batches = <<>> /\ bi = 0 /\ allScores = <<>>
    /\ inflight = {} /\ sent = <<>> /\ answers = <<>>
    /\ response = "none" /\ aborted = FALSE /\ delays = <<>>
    /\ GenIdle

Return(resp) ==
    /\ pc' = "done"
    /\ response' = resp
    /\ UNCHANGED <<batches, bi, allScores, inflight, sent, answers>>

\* exports.handler from its entry to its first await (the first batch's fetch)
\* or to the return that comes before it
AgentStart ==
    /\ pc = "start"
    /\ UNCHANGED <<req, aborted, delays, genVars>>
    /\ IF req.httpMethod = "OPTIONS"
       THEN Return(Response(200, "", <<>>, 0)) /\ UNCHANGED candidates
       ELSE IF req.httpMethod # "POST"
       THEN Return(Response(405, "Method not allowed", <<>>, 0)) /\ UNCHANGED candidates
       ELSE IF ~req.bodyOk            \* JSON.parse(event.body) throws
       THEN Return(Response(500, "Internal server error", <<>>, 0))
                /\ UNCHANGED candidates
       ELSE IF req.task # "generate_and_score"
       THEN Return(Response(400, "Invalid task", <<>>, 0)) /\ UNCHANGED candidates
       ELSE IF PresetCountInvalid(req.presetIds)
       THEN Return(Response(400, "Invalid preset count", <<>>, 0))
                /\ UNCHANGED candidates
       ELSE LET cands == generateCombinations(req.packs, req.multipliers,
                                              req.templates, req.constraints)
                chunks == chunkArray(cands, BatchSize(IsMultiPreset(req.presetIds)))
            IN  /\ candidates' = cands
                /\ IF TooManyCandidates(cands)
                   THEN Return(Response(400, "Too many candidates", <<>>, 0))
                   ELSE IF Len(cands) = 0
                   THEN Return(Response(200, "", <<>>, 0))
                   ELSE IF ~req.apiKey
                   THEN Return(Response(500, "API key not configured", <<>>, 0))
                   ELSE /\ batches' = chunks
                        /\ allScores' = <<>>
                        /\ bi' = 1
                        /\ inflight' = Dispatched(1, Len(chunks))
                        /\ sent' = Ascending(Dispatched(1, Len(chunks)))
                        /\ pc' = "scoring"
                        /\ UNCHANGED <<answers, response>>

\* The rest of a loop turn once batch bi's fetch has settled with answer ans:
\* the scorer builds the batch's records, the loop pushes them and goes on to
\* the next batch's fetch, or leaves the loop.
Settle(ans) ==
    LET reply == OracleReply(ans, batches[bi], ActivePresets(req))
        scores == IF IsMultiPreset(req.presetIds)
                  THEN scoreMultiPresetBatch(batches[bi], req.presetIds.list,
                                             req.presets, reply)
                  ELSE scoreSingleBatch(batches[bi], reply)
        next == Dispatched(bi + 1, Len(batches))
    IN  /\ pc = "scoring"
        /\ bi \in inflight
        /\ answers' = Append(answers, ans)
        /\ allScores' = allScores \o scores
        /\ inflight' = (inflight \ {bi}) \cup next
        /\ sent' = sent \o Ascending(next)
        /\ IF bi < Len(batches)
           THEN bi' = bi + 1 /\ pc' = "scoring"
           ELSE bi' = 0 /\ pc' = "rank"
        /\ UNCHANGED <<req, candidates, batches, response, aborted, delays, genVars>>

\* fetch rejects: a transport failure
FetchRejected == \E ans \in RejectAnswers : Settle(ans)

\* fetch resolves with a status outside 2xx
FetchNotOk == \E ans \in NotOkAnswers : Settle(ans)

\* fetch resolves with status 200 and some body
FetchOk == \E ans \in BodyAnswers(IsMultiPreset(req.presetIds)) : Settle(ans)

\* Step 3: sort allScores in place, slice to limitedTopK, return
Rank ==
    /\ pc = "rank"
    /\ allScores' = StableSort(allScores, IsMultiPreset(req.presetIds))
    /\ response' = Response(200, "", Slice0(allScores', LimitedTopK(req.topK)),
                            Len(candidates))
    /\ pc' = "done"
    /\ UNCHANGED <<req, candidates, batches, bi, inflight, sent, answers, aborted, delays,
                   genVars>>

Next == AgentStart \/ FetchRejected \/ FetchNotOk \/ FetchOk \/ Rank

\* The caller aborts the request while the handler awaits a batch. The handler
\* receives no abort signal and passes none to fetch, so nothing of its state
\* changes.
Abort ==
    /\ pc = "scoring"
    /\ ~aborted
    /\ aborted' = TRUE
    /\ UNCHANGED <<req, pc, candidates, batches, bi, allScores, inflight, sent, answers,
                   response, delays, genVars>>

NextAbort == AgentStart \/ FetchRejected \/ FetchNotOk \/ FetchOk \/ Rank \/ Abort

Spec == AgentInit /\ [][Next]_vars

\* the handler with a caller that may abort
SpecAbort == AgentInit /\ [][NextAbort]_vars

\* ---------------------------------------------------------- the score endpoint

MAX_DOMAINS == 120
MIN_DOMAINS == 1
MIN_PRESETS == 1

\* fetchWithRetry's default arguments
retries == 3
delay == 1000

\* A request to the score endpoint: domains is the body's domains field when it
\* is an array (not given otherwise), n the number of domains in it.
ScoreRequest(httpMethod, bodyOk, hasDomains, n, presetIds, apiKey) ==
    [httpMethod |-> httpMethod, bodyOk |-> bodyOk,
     domains |-> IF hasDomains THEN Given([i \in 1..n |-> Word(i)]) ELSE NotGiven,
     preset |-> "lenders", presetIds |-> presetIds,
     presets |-> << [id |-> "p1", name |-> "Lenders"] >>,
     topK |-> NoNum, apiKey |-> apiKey]

ScoreRequests ==
    {ScoreRequest("POST", TRUE, TRUE, n, ids, TRUE) :
        n \in {1, 10}, ids \in {NotGiven, Given(<<>>), Given(<<"p2">>), TwoPresets}}
    \cup {ScoreRequest("POST", TRUE, TRUE, n, TwoPresets, TRUE) :
              n \in {0, MAX_DOMAINS, MAX_DOMAINS + 1}}
    \cup {ScoreRequest("POST", TRUE, TRUE, 1, SevenPresets, TRUE),
          ScoreRequest("POST", TRUE, FALSE, 0, NotGiven, TRUE),
          ScoreRequest("POST", TRUE, TRUE, 1, NotGiven, FALSE),
          ScoreRequest("POST", TRUE, TRUE, 0, NotGiven, FALSE),
          ScoreRequest("POST", FALSE, TRUE, 1, NotGiven, TRUE),
          ScoreRequest("OPTIONS", TRUE, TRUE, 1, NotGiven, TRUE),
          ScoreRequest("GET", TRUE, TRUE, 1, NotGiven, TRUE)}

ScoreResponse(statusCode, error, scores) ==
    [statusCode |-> statusCode, error |-> error, success |-> error = "",
     count |-> Len(scores), scores |-> scores]

\* the domains as the list the oracle is asked about
Asked(domains) == [i \in 1..Len(domains) |-> [domain |-> domains[i]]]

\* Every response that is not ok taken as a reason to try again.
RetriedOnAnyFailure(reply) == reply.kind = "transport" \/ ~Ok(reply.status)

\* fetchWithRetry tries again after this answer: fetch rejected, or a 5xx status
Retried(reply) == reply.kind = "transport" \/ reply.status >= 500

\* one element of validatedScores
ValidatedScore(s) ==
    [domain |-> IF s.domain = Undefined THEN "" ELSE s.domain,
     score |-> ClampScore(s.score),
     bucket |-> ValidBucket(s.bucket),
     reason |-> TextField(s.reason, 200),
     use_case |-> TextField(s.use_case, 50)]

\* one element of processedResults
ProcessedResult(r, presetIds, presets) ==
    LET resultsByPreset == IF r.hasRbp THEN r.rbp ELSE <<>>
        acc == BestLoop([bestScore |-> 0, bestPresetId |-> "",
                         bestBucket |-> "PASS", bestReason |-> "",
                         bestUseCase |-> "", scores |-> <<>>],
                        presetIds, resultsByPreset)
        n == Len(acc.scores)
    IN  [domain |-> EntryKey(r),
         bestPresetId |-> acc.bestPresetId,
         bestPresetName |-> PresetName(presets, acc.bestPresetId),
         bestScore |-> Round1(acc.bestScore, 1),
         avgScore |-> IF n > 0 THEN Round1(Sum(acc.scores), n) ELSE 0,
         maxScore |-> Round1(acc.bestScore, 1),
         bucket |-> FinalBucket(acc.bestScore, acc.bestBucket),
         reason |-> acc.bestReason,
         use_case |-> acc.bestUseCase,
         scoreByPreset |->
            [pid \in Range(presetIds) |->
                ClampScore(PresetResult(resultsByPreset, pid).score)]]

\* handleSinglePresetScoring / handleMultiPresetScoring from the response that
\* fetchWithRetry returned
HandleScoringResponse(reply, isMultiPreset, presetIds, presets) ==
    IF ~Ok(reply.status) THEN ScoreResponse(502, "AI service error", <<>>)
    ELSE IF reply.body.parse = "unparseable"
    THEN ScoreResponse(502, "Failed to parse AI response", <<>>)
    ELSE IF reply.body.parse # "array"            \* scores.map is not a function
    THEN ScoreResponse(500, "Internal server error", <<>>)
    ELSE LET entries == reply.body.entries
         IN  IF \E j \in 1..Len(entries) : entries[j].isNull   \* s.domain throws
             THEN ScoreResponse(500, "Internal server error", <<>>)
             ELSE ScoreResponse(200, "",
                    [j \in 1..Len(entries) |->
                        IF isMultiPreset
                        THEN ProcessedResult(entries[j], presetIds, presets)
                        ELSE ValidatedScore(entries[j])])

ScoreInit ==
    /\ req \in ScoreRequests
    /\ pc = "score-start"
    /\ candidates = <<>> /\ batches = <<>> /\ bi = 0 /\ allScores = <<>>
    /\ inflight = {} /\ sent = <<>> /\ answers = <<>>
    /\ response = "none" /\ aborted = FALSE /\ delays = <<>>
    /\ GenIdle

ScoreReturn(resp) ==
    /\ pc' = "score-done"
    /\ response' = resp
    /\ inflight' = {}

\* exports.handler of the score endpoint up to the first attempt of
\* fetchWithRetry, or to the return that comes before it
ScoreStart ==
    /\ pc = "score-start"
    /\ UNCHANGED <<req, candidates, batches, allScores, answers, aborted, delays, genVars>>
    /\ IF req.httpMethod = "OPTIONS"
       THEN ScoreReturn(ScoreResponse(200, "", <<>>)) /\ UNCHANGED <<bi, sent>>
       ELSE IF req.httpMethod # "POST"
       THEN ScoreReturn(ScoreResponse(405, "Method not allowed", <<>>))
                /\ UNCHANGED <<bi, sent>>
       ELSE IF ~req.bodyOk
       THEN ScoreReturn(ScoreResponse(500, "Internal server error", <<>>))
                /\ UNCHANGED <<bi, sent>>
       ELSE IF ~req.domains.given \/ Len(req.domains.list) < MIN_DOMAINS
       THEN ScoreReturn(ScoreResponse(400, "Missing or empty domains array", <<>>))
                /\ UNCHANGED <<bi, sent>>
       ELSE IF Len(req.domains.list) > MAX_DOMAINS
       THEN ScoreReturn(ScoreResponse(400, "Too many domains", <<>>))
                /\ UNCHANGED <<bi, sent>>
       ELSE IF ~req.apiKey
       THEN ScoreReturn(ScoreResponse(500, "API key not configured", <<>>))
                /\ UNCHANGED <<bi, sent>>
       ELSE IF /\ IsMultiPreset(req.presetIds)
               /\ \/ Len(req.presetIds.list) < MIN_PRESETS
                  \/ Len(req.presetIds.list) > MAX_PRESETS
       THEN ScoreReturn(ScoreResponse(400, "Invalid preset count", <<>>))
                /\ UNCHANGED <<bi, sent>>
       ELSE /\ bi' = 1
            /\ inflight' = {1}
            /\ sent' = <<1>>
            /\ pc' = "score-fetch"
            /\ UNCHANGED response

\* Attempt bi of fetchWithRetry has settled with answer ans: the response is
\* returned to the scoring function, or the loop waits and tries again, or it
\* throws after the last attempt and the handler's catch answers.
ScoreSettle(ans) ==
    LET reply == OracleReply(ans, Asked(req.domains.list), ActivePresets(req))
    IN  /\ pc = "score-fetch"
        /\ bi \in inflight
        /\ answers' = Append(answers, ans)
        /\ UNCHANGED <<req, candidates, batches, allScores, aborted, genVars>>
        /\ IF ~Retried(reply)
           THEN /\ ScoreReturn(HandleScoringResponse(reply, IsMultiPreset(req.presetIds),
                                                     ActivePresets(req), req.presets))
                /\ UNCHANGED <<bi, sent, delays>>
           ELSE IF bi < retries
           THEN /\ delays' = Append(delays, delay * bi)
                /\ bi' = bi + 1
                /\ inflight' = {bi + 1}
                /\ sent' = Append(sent, bi + 1)
                /\ UNCHANGED <<pc, response>>
           ELSE /\ ScoreReturn(ScoreResponse(500, "Internal server error", <<>>))
                /\ UNCHANGED <<bi, sent, delays>>

ScoreFetchRejected == \E ans \in RejectAnswers : ScoreSettle(ans)

ScoreFetchNotOk == \E ans \in NotOkAnswers : ScoreSettle(ans)

ScoreFetchOk ==
    \E ans \in BodyAnswers(IsMultiPreset(req.presetIds)) : ScoreSettle(ans)

ScoreNext == ScoreStart \/ ScoreFetchRejected \/ ScoreFetchNotOk \/ ScoreFetchOk

SpecScore == ScoreInit /\ [][ScoreNext]_vars

\* both endpoints: a run is a run of either handler
InitAll == AgentInit \/ ScoreInit
NextAll ==
    \/ AgentStart \/ FetchRejected \/ FetchNotOk \/ FetchOk \/ Rank
    \/ ScoreStart \/ ScoreFetchRejected \/ ScoreFetchNotOk \/ ScoreFetchOk

SpecAll == InitAll /\ [][NextAll]_vars

\* --------------------------------------------------- claims on the agent handler

Multi == IsMultiPreset(req.presetIds)
InLoop == pc \in {"scoring", "rank"}

\* the candidates of the batches before batch k
RECURSIVE Before(_)
Before(k) == IF k <= 1 THEN 0 ELSE Len(batches[k - 1]) + Before(k - 1)

\* the batch that holds candidate i, and i's place in it
BatchOf(i) == CHOOSE k \in 1..Len(batches) : Before(k) < i /\ i <= Before(k) + Len(batches[k])
PlaceOf(i) == i - Before(BatchOf(i))

\* what a score the oracle reports must be stored as: within [0, 10] as it is,
\* above 10 as 10, below 0 or not a number as 0
Stored(raw) ==
    IF raw.t \in {"num", "numstr"}
    THEN (IF raw.v > 1000 THEN 1000 ELSE IF raw.v < 0 THEN 0 ELSE raw.v)
    ELSE 0

\* x rounded to one decimal
Tenth(x) == ((x + 5) \div 10) * 10

\* C1: while the batches are scored and once they all are (before ranking), the
\* accumulated list holds exactly one record per candidate of the batches
\* answered so far, the i-th record carrying the i-th candidate's domain, whatever
\* the oracle did on each batch; and a record of a batch the oracle scored in
\* full holds the oracle's (clamped) score, whatever happened to other batches.
C1_OneRecordPerCandidate ==
    InLoop =>
        /\ Len(allScores) = Before(Len(answers) + 1)
        /\ pc = "rank" => Len(allScores) = Len(candidates)
        /\ \A i \in 1..Len(allScores) :
              /\ allScores[i].domain = candidates[i].domain
              /\ answers[BatchOf(i)].b = "scored" =>
                    LET k == PlaceOf(i) + answers[BatchOf(i)].o - 1
                    IN  IF Multi
                        THEN allScores[i].scoreByPreset[req.presetIds.list[1]]
                                = Tenth(Stored(PatternAt(k + 1).score))
                        ELSE allScores[i].score = Stored(PatternAt(k).score)

\* C1 witness: all batches answered, the first by a transport failure, the
\* second scored in full.
C1_Witness ==
    /\ pc = "rank"
    /\ Len(batches) = 2
    /\ answers[1].b = "transport"
    /\ answers[2].b = "scored"
    /\ Len(allScores) = Len(candidates)

ScoreOk(x) == x >= 0 /\ x <= 1000

WellFormed(r) ==
    IF Multi
    THEN /\ ScoreOk(r.bestScore) /\ ScoreOk(r.avgScore) /\ ScoreOk(r.maxScore)
         /\ \A pid \in DOMAIN r.scoreByPreset : ScoreOk(r.scoreByPreset[pid])
         /\ r.bucket \in {"FAST-FLIP", "HOLD", "PASS"}
    ELSE /\ ScoreOk(r.score)
         /\ r.bucket \in {"FAST-FLIP", "HOLD", "PASS"}

PersonaCountOutOfBounds ==
    req.presetIds.given /\ (Len(req.presetIds.list) < 1 \/ Len(req.presetIds.list) > 6)

\* the request reaches validation: a POST with a parseable body for this task
Validated ==
    req.httpMethod = "POST" /\ req.bodyOk /\ req.task = "generate_and_score"

\* C6: a request over the candidate cap (more than 10000 candidates) or outside
\* the persona-count bound (fewer than 1 or more than 6 requested ids) never has
\* a request sent to the oracle, and ends with status 400.
C6_InvalidRequestRejected ==
    (Validated /\ (PersonaCountOutOfBounds \/ Len(candidates) > 10000)) =>
        /\ sent = <<>>
        /\ pc = "done" => response.statusCode = 400

\* the number of requests sent for batch k
Attempts(k) == Cardinality({i \in 1..Len(sent) : sent[i] = k})

\* C7: in the generate-and-score pipeline a batch whose oracle call met a
\* transport failure or a 5xx response is given up only after the call was
\* retried (more than one attempt made for it).
C7_FailedCallRetried ==
    InLoop =>
        \A k \in 1..Len(answers) :
            answers[k].b \in {"transport", "http503"} => Attempts(k) > 1

\* C8: at most one oracle request is in flight; requests go out in batch order,
\* one per batch; and while the request for batch k is in flight every earlier
\* batch has been answered and its records are already in the accumulated list.
C8_BatchesSequential ==
    pc \in {"scoring", "rank", "done"} =>
        /\ Cardinality(inflight) <= 1
        /\ \A i \in 1..Len(sent) : sent[i] = i
        /\ \A k \in inflight :
              /\ k = Len(sent)
              /\ Len(answers) = k - 1
              /\ Len(allScores) = Before(k)

\* C8 witness: the second batch's request is in flight with the first batch's
\* records accumulated.
C8_Witness ==
    /\ pc = "scoring"
    /\ inflight = {2}
    /\ sent = <<1, 2>>
    /\ Len(allScores) = Len(batches[1])
    /\ Len(allScores) > 0

RECURSIVE Concat(_)
Concat(k) == IF k = 0 THEN <<>> ELSE Concat(k - 1) \o batches[k]

\* C9: the batches are a contiguous partition of the candidate list: their
\* concatenation in order is the list, none is empty, all but the last have
\* exactly the batch size (the last at most that), and the batch size is 80 in
\* single-preset mode and 60 in multi-preset mode.
C9_BatchesPartition ==
    pc \in {"scoring", "rank"} =>
        LET size == IF Multi THEN 60 ELSE 80
        IN  /\ Concat(Len(batches)) = candidates
            /\ \A k \in 1..Len(batches) : Len(batches[k]) >= 1 /\ Len(batches[k]) <= size
            /\ \A k \in 1..(Len(batches) - 1) : Len(batches[k]) = size

\* C9 witness: 61 candidates in multi-preset mode, split into batches of 60 and 1.
C9_Witness ==
    /\ pc = "scoring"
    /\ Multi
    /\ Len(candidates) = 61
    /\ Len(batches) = 2
    /\ Len(batches[1]) = 60
    /\ Len(batches[2]) = 1

\* the records of batch k in the accumulated list
RecordsOf(k) == SubSeq(allScores, Before(k) + 1, Before(k) + Len(batches[k]))

ZeroPass(r) ==
    /\ r.bucket = "PASS"
    /\ IF Multi THEN r.bestScore = 0 /\ r.avgScore = 0 ELSE r.score = 0

\* C10 as stated: a batch whose response body cannot be parsed gives each of its
\* candidates score 0, bucket PASS and reason "Scoring failed", in both modes.
C10_UnparseableAsStated ==
    InLoop =>
        \A k \in 1..Len(answers) :
            answers[k].b = "unparseable" =>
                \A i \in 1..Len(batches[k]) :
                    ZeroPass(RecordsOf(k)[i]) /\ RecordsOf(k)[i].reason = "Scoring failed"

\* C10 amended: a batch whose response body cannot be parsed gives each of its
\* candidates score 0 and bucket PASS, with reason "Error" in single-preset mode
\* and reason "Scoring failed" in multi-preset mode.
C10_UnparseableAmended ==
    InLoop =>
        \A k \in 1..Len(answers) :
            answers[k].b = "unparseable" =>
                /\ Len(RecordsOf(k)) = Len(batches[k])
                /\ \A i \in 1..Len(batches[k]) :
                      /\ ZeroPass(RecordsOf(k)[i])
                      /\ RecordsOf(k)[i].domain = batches[k][i].domain
                      /\ RecordsOf(k)[i].reason
                            = (IF Multi THEN "Scoring failed" ELSE "Error")

\* C10 witness: in single-preset mode a batch of several candidates got an
\* unparseable body and its records carry reason "Error".
C10_Witness ==
    /\ InLoop
    /\ ~Multi
    /\ \E k \in 1..Len(answers) :
            /\ answers[k].b = "unparseable"
            /\ Len(batches[k]) > 1
            /\ RecordsOf(k)[1].reason = "Error"

\* what the oracle reported for candidate i of a batch answered "partial" or
\* "scored" with offset o, as the record must hold it
ReportedKept(r, i, o) ==
    IF Multi
    THEN r.scoreByPreset[req.presetIds.list[1]] = Tenth(Stored(PatternAt(i + o).score))
    ELSE r.score = Stored(PatternAt(i + o - 1).score)

\* C11: when the oracle's parsed array has no entry for a candidate (the first
\* of its batch here), that candidate's record is the synthetic failure record:
\* score 0, bucket PASS and reason "Scoring failed" or "Error", in both modes;
\* the other candidates of the batch keep what the oracle reported.
C11_MissingEntryIsFailureRecord ==
    InLoop =>
        \A k \in 1..Len(answers) :
            answers[k].b = "partial" =>
                /\ ZeroPass(RecordsOf(k)[1])
                /\ RecordsOf(k)[1].reason \in {"Scoring failed", "Error"}
                /\ \A i \in 2..Len(batches[k]) : ReportedKept(RecordsOf(k)[i], i, 0)

\* the multi-preset records built from an oracle entry: those of the batches
\* answered "scored", with the place i in the batch and the answer's offset o
ScoredMulti ==
    {<<k, i>> \in (1..Len(answers)) \X (1..60) :
        answers[k].b = "scored" /\ i <= Len(batches[k])}

\* the sub-result the oracle gave persona pid for candidate i under offset o
\* ({} when it gave none)
SubResultOf(i, o, pid) == PresetResult(RbpAt(i, o, req.presetIds.list), pid)

\* the largest value of scoreByPreset
MaxOf(scoreByPreset) ==
    CHOOSE m \in {scoreByPreset[pid] : pid \in DOMAIN scoreByPreset} :
        \A pid \in DOMAIN scoreByPreset : scoreByPreset[pid] <= m

\* the first requested id whose scoreByPreset value is the largest
FirstBest(ids, scoreByPreset) ==
    ids[CHOOSE j \in 1..Len(ids) :
            /\ scoreByPreset[ids[j]] = MaxOf(scoreByPreset)
            /\ \A h \in 1..(j - 1) : scoreByPreset[ids[h]] < MaxOf(scoreByPreset)]

\* C12: in every multi-preset record bestScore is the maximum of scoreByPreset
\* and bestPresetId is the first requested id that attains it, bestPresetName
\* being that persona's name; in a record built from an oracle entry, reason and
\* use_case are those of that persona's sub-result; also when all personas
\* score 0.
C12_BestIsFirstMaximum ==
    (InLoop /\ Multi) =>
        /\ \A n \in 1..Len(allScores) :
              LET r == allScores[n]
                  best == FirstBest(req.presetIds.list, r.scoreByPreset)
              IN  /\ r.bestScore = MaxOf(r.scoreByPreset)
                  /\ r.bestPresetId = best
                  /\ r.bestPresetName = PresetName(req.presets, best)
        /\ \A p \in ScoredMulti :
              LET r == RecordsOf(p[1])[p[2]]
                  sub == SubResultOf(p[2], answers[p[1]].o, r.bestPresetId)
              IN  /\ r.reason = TextField(sub.reason, 200)
                  /\ r.use_case = TextField(sub.use_case, 50)

\* the bucket the thresholds give a stored bestScore, own being the winning
\* persona's own bucket
BucketOf(bestScore, own) ==
    IF bestScore >= 800 THEN "FAST-FLIP"
    ELSE IF bestScore >= 700 THEN (IF own = "FAST-FLIP" THEN "FAST-FLIP" ELSE "HOLD")
    ELSE IF bestScore >= 400 THEN "HOLD"
    ELSE "PASS"

\* C13: in every multi-preset record the bucket follows from the bestScore the
\* record stores: at least 8.0 FAST-FLIP; from 7.0 up to 8.0 FAST-FLIP if the
\* winning persona's own bucket was FAST-FLIP, else HOLD; from 4.0 up to 7.0
\* HOLD; below 4.0 PASS; also for oracle scores such as 7.96 and 3.96.
C13_BucketFromStoredBestScore ==
    (InLoop /\ Multi) =>
        /\ \A n \in 1..Len(allScores) :
              (allScores[n].bestScore >= 800 \/ allScores[n].bestScore < 700) =>
                  allScores[n].bucket = BucketOf(allScores[n].bestScore, "PASS")
        /\ \A p \in ScoredMulti :
              LET r == RecordsOf(p[1])[p[2]]
                  sub == SubResultOf(p[2], answers[p[1]].o, r.bestPresetId)
              IN  r.bucket = BucketOf(r.bestScore, sub.bucket)

\* the sum of the clamped scores of the personas ids for candidate i, offset o
RECURSIVE SumStored(_, _, _)
SumStored(i, o, ids) ==
    IF ids = <<>> THEN 0
    ELSE Stored(SubResultOf(i, o, Head(ids)).score) + SumStored(i, o, Tail(ids))

\* the clamped scores of the requested personas for candidate i, offset o
StoredScores(i, o) ==
    [j \in 1..Len(req.presetIds.list) |->
        Stored(SubResultOf(i, o, req.presetIds.list[j]).score)]

\* the multi-preset results the score endpoint returned for a fully scored
\* reply: the places j of its scores list
ScoredByEndpoint ==
    IF /\ pc = "score-done"
       /\ response.statusCode = 200
       /\ IsMultiPreset(req.presetIds)
       /\ answers[Len(answers)].b = "scored"
    THEN 1..Len(response.scores)
    ELSE {}

\* record r, made for the i-th domain under offset o, holds the exact mean
MeanExact(r, i, o) ==
    LET n == Len(req.presetIds.list)
    IN  /\ r.avgScore * n = SumStored(i, o, req.presetIds.list)
        /\ StoredScores(i, o) \in {<<750, 600>>, <<600, 750>>} =>
                (r.bestScore = 750 /\ 4 * r.avgScore = 2700)

\* record r, made for the i-th domain under offset o, holds the mean rounded
\* to one decimal, halves upwards
MeanRounded(r, i, o) ==
    LET n == Len(req.presetIds.list)
        sum == SumStored(i, o, req.presetIds.list)
    IN  /\ r.avgScore % 10 = 0
        /\ (r.avgScore - 5) * n <= sum
        /\ sum < (r.avgScore + 5) * n
        /\ StoredScores(i, o) \in {<<750, 600>>, <<600, 750>>} =>
                (r.bestScore = 750 /\ r.avgScore = 680)

\* C14 as stated: in the agent pipeline and in the score endpoint, avgScore is
\* the arithmetic mean of the requested personas' clamped scores; personas
\* scoring 7.5 and 6.0 give bestScore 7.5 and avgScore 6.75.
C14_AvgIsMeanAsStated ==
    /\ (InLoop /\ Multi) =>
            \A p \in ScoredMulti :
                MeanExact(RecordsOf(p[1])[p[2]], p[2], answers[p[1]].o)
    /\ \A j \in ScoredByEndpoint :
            MeanExact(response.scores[j], j, answers[Len(answers)].o)

\* C14 amended: in the agent pipeline and in the score endpoint, avgScore is the
\* arithmetic mean of the requested personas' clamped scores rounded to one
\* decimal (halves upwards); personas scoring 7.5 and 6.0 give bestScore 7.5
\* and avgScore 6.8.
C14_AvgIsRoundedMean ==
    /\ (InLoop /\ Multi) =>
            \A p \in ScoredMulti :
                MeanRounded(RecordsOf(p[1])[p[2]], p[2], answers[p[1]].o)
    /\ \A j \in ScoredByEndpoint :
            MeanRounded(response.scores[j], j, answers[Len(answers)].o)

\* C14 witness: a record of the agent pipeline whose two personas scored 6.0
\* and 7.5, with bestScore 7.5 and avgScore 6.8.
C14_Witness ==
    /\ InLoop
    /\ Multi
    /\ \E p \in ScoredMulti :
            /\ StoredScores(p[2], answers[p[1]].o) = <<600, 750>>
            /\ RecordsOf(p[1])[p[2]].bestScore = 750
            /\ RecordsOf(p[1])[p[2]].avgScore = 680

\* the sum of the values scoreByPreset holds for the personas ids
RECURSIVE SumValues(_, _)
SumValues(scoreByPreset, ids) ==
    IF ids = <<>> THEN 0
    ELSE scoreByPreset[Head(ids)] + SumValues(scoreByPreset, Tail(ids))

\* C15: in every multi-preset record of the agent pipeline avgScore is the mean
\* of the values the record's scoreByPreset holds, rounded to one decimal
\* (halves upwards), for every combination of oracle scores, 0.05 and 0.00
\* included.
C15_AvgMatchesScoreByPreset ==
    (InLoop /\ Multi) =>
        \A k \in 1..Len(allScores) :
            LET r == allScores[k]
                n == Len(req.presetIds.list)
                sum == SumValues(r.scoreByPreset, req.presetIds.list)
            IN  /\ r.avgScore % 10 = 0
                /\ (r.avgScore - 5) * n <= sum
                /\ sum < (r.avgScore + 5) * n

\* C16: in every multi-preset record, built from an oracle entry or synthetic,
\* accumulated or returned, the keys of scoreByPreset are exactly the requested
\* persona ids, and a persona the oracle left out of an entry has value 0.
C16_ScoreByPresetKeys ==
    (pc \in {"scoring", "rank", "done"} /\ Multi) =>
        /\ \A k \in 1..Len(allScores) :
              DOMAIN allScores[k].scoreByPreset = Range(req.presetIds.list)
        /\ (pc = "done" /\ response.statusCode = 200) =>
              \A k \in 1..Len(response.results) :
                  DOMAIN response.results[k].scoreByPreset = Range(req.presetIds.list)
        /\ InLoop =>
              \A p \in ScoredMulti :
                  \A pid \in Range(req.presetIds.list) :
                      pid \notin DOMAIN RbpAt(p[2], answers[p[1]].o, req.presetIds.list)
                          => RecordsOf(p[1])[p[2]].scoreByPreset[pid] = 0

\* C16 witness: after a failed batch and a scored one, a record built from an
\* entry in which the oracle left out the first persona and scored the second.
C16_Witness ==
    /\ pc = "rank"
    /\ Multi
    /\ Len(answers) = 2
    /\ answers[1].b = "http503"
    /\ \E p \in ScoredMulti :
            /\ "p1" \notin DOMAIN RbpAt(p[2], answers[p[1]].o, req.presetIds.list)
            /\ RecordsOf(p[1])[p[2]].scoreByPreset = [p1 |-> 0, p2 |-> 10]

\* the place of the candidate a record was made for in the candidate list (the
\* order in which the records were accumulated)
InputPlace(r) == CHOOSE i \in 1..Len(candidates) : candidates[i].domain = r.domain

\* record a ranks before record b: by score, or by bestScore then avgScore,
\* descending; records level on these keep their input order
RanksBefore(a, b) ==
    IF Multi
    THEN \/ a.bestScore > b.bestScore
         \/ a.bestScore = b.bestScore /\ a.avgScore > b.avgScore
         \/ a.bestScore = b.bestScore /\ a.avgScore = b.avgScore
                /\ InputPlace(a) < InputPlace(b)
    ELSE \/ a.score > b.score
         \/ a.score = b.score /\ InputPlace(a) < InputPlace(b)

\* C17: for every integer topK supplied, the handler returns exactly
\* min(topK, 300, number of scored candidates) results (none when that is not
\* positive); with or without topK the results are the highest-ranked records
\* of the scored set, in rank order.
C17_TopKHighestInRankOrder ==
    (pc = "done" /\ response.statusCode = 200 /\ sent # <<>>) =>
        LET results == response.results
            n == Len(allScores)
        IN  /\ req.topK.given =>
                  Len(results) = Max(0, Min(req.topK.v, Min(300, n)))
            /\ n = Len(candidates)
            /\ \A i \in 1..(n - 1) : RanksBefore(allScores[i], allScores[i + 1])
            /\ Len(results) <= n
            /\ \A i \in 1..Len(results) : results[i] = allScores[i]

\* C18: when OPENAI_API_KEY is missing, a POST request ends with the
\* configuration error (500, "API key not configured") and nothing is processed
\* first: no candidates are generated and no validation verdict or success
\* response is returned, also for packs that yield zero candidates.
C18_MissingKeyFailsFirst ==
    (req.httpMethod = "POST" /\ ~req.apiKey) =>
        /\ candidates = <<>>
        /\ sent = <<>>
        /\ pc = "done" =>
              (response.statusCode = 500 /\ response.error = "API key not configured")

\* C19: once the caller has aborted the request, no further batch is sent to the
\* oracle and the call in flight is abandoned: its reply is not turned into
\* records.
C19_NoDispatchAfterAbort ==
    [][aborted => (sent' = sent /\ allScores' = allScores)]_vars

\* ------------------------------------------------------ the winners endpoint

\* const WINNERS, by domain
WINNERS == << [domain |-> "trustflow.com"], [domain |-> "payverify.com"] >>

\* s.split(','): the pieces between the commas, in order
RECURSIVE Split(_, _)
Split(s, piece) ==
    IF s = "" THEN <<piece>>
    ELSE IF Char(s, 1) = "," THEN <<piece>> \o Split(SubSeq(s, 2, Len(s)), "")
    ELSE Split(SubSeq(s, 2, Len(s)), piece \o Char(s, 1))

\* e.trim(): white space (blanks, in the inputs used here) removed at both ends
RECURSIVE Trim(_)
Trim(e) ==
    IF e = "" THEN ""
    ELSE IF Char(e, 1) = " " THEN Trim(SubSeq(e, 2, Len(e)))
    ELSE IF Char(e, Len(e)) = " " THEN Trim(SubSeq(e, 1, Len(e) - 1))
    ELSE e

\* allowedEmailsEnv.split(',').map(e => e.trim().toLowerCase()).filter(e => e)
AllowedEmails(allowedEmailsEnv) ==
    LET pieces == Split(allowedEmailsEnv, "")
        NonEmpty(e) == e # ""
    IN  SelectSeq([j \in 1..Len(pieces) |-> toLowerCase(Trim(pieces[j]))], NonEmpty)

\* The list test made on the raw variable: a substring match.
IsForbiddenSubstring(allowedEmailsEnv, userEmail) ==
    /\ allowedEmailsEnv # ""
    /\ ~Includes(toLowerCase(allowedEmailsEnv), toLowerCase(userEmail))

\* the whitelist check: true when the request is refused with 403
IsForbidden(allowedEmailsEnv, userEmail) ==
    /\ allowedEmailsEnv # ""
    /\ Len(AllowedEmails(allowedEmailsEnv)) > 0
    /\ toLowerCase(userEmail) \notin Range(AllowedEmails(allowedEmailsEnv))

\* A request to the winners endpoint: the method, context.clientContext.user
\* (hasUser FALSE when there is none; email "" when the user has none) and the
\* ALLOWED_EMAILS variable ("" when unset).
WinnersRequest(httpMethod, hasUser, email, allowedEmailsEnv) ==
    [httpMethod |-> httpMethod, hasUser |-> hasUser, email |-> email,
     allowedEmailsEnv |-> allowedEmailsEnv]

WinnersRequests ==
    {WinnersRequest(m, u # Undefined, IF u = Undefined THEN "" ELSE u, env) :
        m \in {"GET", "POST", "OPTIONS", "DELETE"},
        u \in {Undefined, "", "a@x.io", "A@X.io", "b@x.io", " a@x.io"},
        env \in {"", "a@x.io", " A@x.io ,c@x.io", "c@x.io", " , ", ",", "b@x.io,,"}}

\* the response: winners is <<>> when the body carries none
WinnersResponse(statusCode, error, user, winners) ==
    [statusCode |-> statusCode, error |-> error, success |-> error = "",
     user |-> user, count |-> Len(winners), winners |-> winners]

WinnersInit ==
    /\ req \in WinnersRequests
    /\ pc = "start"
    /\ response = "none"
    /\ candidates = <<>> /\ batches = <<>> /\ bi = 0 /\ allScores = <<>>
    /\ inflight = {} /\ sent = <<>> /\ answers = <<>> /\ aborted = FALSE
    /\ delays = <<>>
    /\ GenIdle

\* exports.handler of winners.js
WinnersHandle ==
    /\ pc = "start"
    /\ pc' = "done"
    /\ response' =
          IF req.httpMethod = "OPTIONS" THEN WinnersResponse(200, "", "", <<>>)
          ELSE IF req.httpMethod # "GET"
          THEN WinnersResponse(405, "Method not allowed", "", <<>>)
          ELSE IF ~req.hasUser THEN WinnersResponse(401, "Unauthorized", "", <<>>)
          ELSE IF IsForbidden(req.allowedEmailsEnv, req.email)
          THEN WinnersResponse(403, "Forbidden", "", <<>>)
          ELSE WinnersResponse(200, "", req.email, WINNERS)
    /\ UNCHANGED <<req, candidates, batches, bi, allScores, inflight, sent, answers,
                   aborted, delays, genVars>>

WinnersNext == WinnersHandle

SpecWinners == WinnersInit /\ [][WinnersNext]_vars

\* the emails ALLOWED_EMAILS lists: its comma-separated entries without
\* surrounding blanks, in lower case, the empty ones left out
Listed(env) ==
    {toLowerCase(Trim(Split(env, "")[j])) : j \in 1..Len(Split(env, ""))} \ {""}

\* C20 as stated: the response carries the winners only when the request is a
\* GET with an authenticated user whose email, if ALLOWED_EMAILS is configured,
\* is (ignoring case) one of the listed emails; every other request gets 401,
\* 403 or 405 and no winners.
C20_WinnersOnlyToAllowedAsStated ==
    pc = "done" =>
        LET allowed == /\ req.httpMethod = "GET"
                       /\ req.hasUser
                       /\ req.allowedEmailsEnv # "" =>
                              toLowerCase(req.email) \in Listed(req.allowedEmailsEnv)
        IN  /\ response.winners # <<>> => allowed
            /\ ~allowed => (response.statusCode \in {401, 403, 405}
                               /\ response.winners = <<>>)

\* C20 amended: the response carries the winners only when the request is a GET
\* with an authenticated user whose email, if ALLOWED_EMAILS lists at least one
\* non-blank email, is (ignoring case) one of the listed emails; of the other
\* requests an OPTIONS request gets 200 with an empty body and the rest 401, 403
\* or 405, all without winners.
C20_WinnersOnlyToAllowed ==
    pc = "done" =>
        LET allowed == /\ req.httpMethod = "GET"
                       /\ req.hasUser
                       /\ Listed(req.allowedEmailsEnv) # {} =>
                              toLowerCase(req.email) \in Listed(req.allowedEmailsEnv)
        IN  /\ response.winners # <<>> => allowed
            /\ ~allowed =>
                  /\ response.winners = <<>>
                  /\ response.statusCode
                        = (IF req.httpMethod = "OPTIONS" THEN 200
                           ELSE IF req.httpMethod # "GET" THEN 405
                           ELSE IF ~req.hasUser THEN 401 ELSE 403)

\* C20 witness: a listed user, written in another case than the list's entry,
\* got the winners.
C20_Witness ==
    /\ pc = "done"
    /\ req.httpMethod = "GET"
    /\ req.email = "A@X.io"
    /\ req.allowedEmailsEnv = " A@x.io ,c@x.io"
    /\ response.statusCode = 200
    /\ response.winners = WINNERS

\* the answers after which fetchWithRetry does not return: fetch rejected, or
\* a 5xx status
FailedAttempt(ans) == ans.b \in {"transport", "http503"}

\* C21: fetchWithRetry makes at most 3 attempts, one after another; the first
\* response with a status below 500 ends the call with no further attempt;
\* after failed attempt number i (counted from 0, as the loop does) it waits
\* 1000 * (i + 1) ms before the next attempt, so the waits are 1000, 2000; and
\* after a third failed attempt in a row (transport failure or 5xx) it throws,
\* and the score endpoint answers 500 without scores.
C21_FetchWithRetry ==
    pc \in {"score-fetch", "score-done"} =>
        /\ Len(sent) <= 3
        /\ \A k \in 1..Len(sent) : sent[k] = k
        /\ Len(answers) = (IF pc = "score-done" THEN Len(sent) ELSE Len(sent) - 1)
        /\ \A k \in 1..Len(answers) :
              IF FailedAttempt(answers[k])
              THEN k < 3 => Len(sent) > k
              ELSE k = Len(answers) /\ Len(sent) = k /\ pc = "score-done"
        /\ sent # <<>> =>
              delays = [i \in 1..(Len(sent) - 1) |-> 1000 * i]
        /\ \A i \in 1..(Len(delays) - 1) : delays[i] < delays[i + 1]
        /\ (pc = "score-done" /\ Len(answers) = 3 /\ FailedAttempt(answers[3])) =>
              /\ response.statusCode = 500
              /\ response.scores = <<>>
              /\ ~response.success

\* C21 witness: a transport failure and two 5xx responses, with waits of 1000
\* and 2000 ms between the three attempts, then the 500 answer.
C21_Witness ==
    /\ pc = "score-done"
    /\ sent = <<1, 2, 3>>
    /\ answers = <<Answer("transport", 0), Answer("http503", 0), Answer("http503", 0)>>
    /\ delays = <<1000, 2000>>
    /\ response.statusCode = 500

\* record r has the ScoreResult shape for the candidate it was made for
ScoreResultShape(r) ==
    /\ {"domain", "score", "bucket", "reason", "use_case", "templateUsed", "sources"}
            \subseteq DOMAIN r
    /\ r.templateUsed = candidates[InputPlace(r)].template
    /\ r.sources = candidates[InputPlace(r)].sources

\* C22: every single-preset record the agent handler accumulates and returns,
\* the synthetic failure records of a non-2xx response or an exception
\* included, has the ScoreResult shape, with templateUsed equal to its
\* candidate's template and sources equal to its candidate's sources.
C22_SingleRecordsHaveShape ==
    (pc \in {"scoring", "rank", "done"} /\ ~Multi) =>
        /\ \A i \in 1..Len(allScores) : ScoreResultShape(allScores[i])
        /\ (pc = "done" /\ response.statusCode = 200) =>
              \A i \in 1..Len(response.results) : ScoreResultShape(response.results[i])

====
